---- MODULE Spec2Model ----
(***************************************************************************)
(* Sentinel Engine: the governance pipeline of POST /govern.               *)
(*                                                                         *)
(* Representation of values                                                *)
(*   text    a Python str, run-length encoded: a sequence of runs          *)
(*           [c |-> character, n |-> repetitions], adjacent runs having    *)
(*           different characters.  Every str has exactly one encoding,    *)
(*           so equality of encodings is equality of strings, and texts    *)
(*           of several hundred thousand characters stay small.            *)
(*   score   a float rounded to 4 decimals, as an integer count of 1e-4.   *)
(*   money   a float rounded to 8 decimals, as an integer count of 1e-8    *)
(*           USD.  Prices per token are whole multiples of 1e-8 USD.       *)
(*   Arithmetic on floats is modelled on exact rationals, and round(x, k)  *)
(*   is the nearest multiple of 10^-k of the exact value.  Where the exact *)
(*   value lies half way between two multiples, the representation error   *)
(*   of the binary float decides which one Python returns: for costs, where*)
(*   such values are common, both are outcomes of the model.               *)
(***************************************************************************)
EXTENDS Integers, Sequences, FiniteSets, TLC

\* ------------------------------------------------------------------------
\* Bounds of the model
\* ------------------------------------------------------------------------

\* Requests in flight at the same time.
MaxRequests == 2

\* Longest answer/context (in characters) enumerated for the text functions.
MaxLen == 3

\* Token counts are enumerated at every routing threshold and token limit,
\* and up to this distance below and above each of them.
TokenSlack == 1

\* ------------------------------------------------------------------------
\* Text (Python str)
\* ------------------------------------------------------------------------

Chars == {"a", "B", " ", "."}

IsSpace(c) == c \in {" ", "\n"}

\* \w: every character of the model other than blanks and punctuation.
IsWord(c) == c \notin {" ", "\n", "."}

LowerChar(c) == IF c = "B" THEN "b" ELSE IF c = "R" THEN "r" ELSE c

Run(c, n) == [c |-> c, n |-> n]

\* s.lower()/concatenation keep the encoding canonical: push one run in front
\* of an encoded text, merging it with an equal first run.
Cons(r, t) ==
    IF t # <<>> /\ t[1].c = r.c
    THEN <<Run(r.c, r.n + t[1].n)>> \o Tail(t)
    ELSE <<r>> \o t

RECURSIVE Encode(_)
\* The encoding of a str given as its sequence of characters.
Encode(s) ==
    IF s = <<>> THEN <<>> ELSE Cons(Run(Head(s), 1), Encode(Tail(s)))

RECURSIVE len(_)
len(t) == IF t = <<>> THEN 0 ELSE t[1].n + len(Tail(t))

RECURSIVE lower(_)
lower(t) ==
    IF t = <<>> THEN <<>>
    ELSE Cons(Run(LowerChar(t[1].c), t[1].n), lower(Tail(t)))

strip(t) ==
    LET keep == {i \in 1..Len(t) : ~IsSpace(t[i].c)}
    IN  IF keep = {} THEN <<>>
        ELSE LET lo == CHOOSE i \in keep : \A j \in keep : i <= j
                 hi == CHOOSE i \in keep : \A j \in keep : j <= i
             IN  SubSeq(t, lo, hi)

\* f"{query}\n{context}"
RECURSIVE Concat(_, _)
Concat(s, t) ==
    IF s = <<>> THEN t
    ELSE IF Len(s) = 1 THEN Cons(s[1], t)
    ELSE <<s[1]>> \o Concat(Tail(s), t)

Combined(query, context) == Concat(query, Cons(Run("\n", 1), context))

\* Python None, where a str was expected.
None == <<Run("None", 0)>>

\* All strs of at most k characters over Chars.
TextsUpTo(k) ==
    {Encode(s) : s \in UNION {[1..n -> Chars] : n \in 0..k}}

\* ------------------------------------------------------------------------
\* Exact arithmetic: a non-negative rational as a mixed number q + n/d
\* ------------------------------------------------------------------------

Frac(num, den) == [q |-> num \div den, n |-> num % den, d |-> den]

FracAdd(x, y) ==
    LET num == x.n * y.d + y.n * x.d
        den == x.d * y.d
    IN  [q |-> x.q + y.q + (num \div den), n |-> num % den, d |-> den]

\* round(x): nearest integer, a tie to the even one.  Used for the confidence
\* score, where no exact value of the texts enumerated is a tie.
RoundHalfEven(x) ==
    IF 2 * x.n > x.d THEN x.q + 1
    ELSE IF 2 * x.n < x.d THEN x.q
    ELSE IF x.q % 2 = 0 THEN x.q ELSE x.q + 1

\* round(x) of a float whose exact value is x: both neighbours on a tie.
RoundOutcomes(x) ==
    IF 2 * x.n > x.d THEN {x.q + 1}
    ELSE IF 2 * x.n < x.d THEN {x.q}
    ELSE {x.q, x.q + 1}

Min(a, b) == IF a <= b THEN a ELSE b

Max(a, b) == IF a >= b THEN a ELSE b

\* ------------------------------------------------------------------------
\* Configuration (sentinel/config.py)
\* ------------------------------------------------------------------------

ALLOWED_PROVIDERS == {"openai", "anthropic"}

\* The three dicts of the config module are objects every request reads:
\* config holds their contents, which are those of ConfigAtImport as long as
\* nothing assigns to them.
VARIABLE config

\* The pricing table with one routed model left out.
ConfigWithoutSonnetPrice ==
    [MODEL_ROUTING_THRESHOLDS |->
        ("openai" :> [threshold |-> 500,
                      cheap_model |-> "gpt-4o-mini",
                      premium_model |-> "gpt-4o"]) @@
        ("anthropic" :> [threshold |-> 500,
                         cheap_model |-> "claude-3-haiku",
                         premium_model |-> "claude-3-sonnet"]),
     MODEL_TOKEN_LIMITS |->
        ("gpt-4o-mini" :> 128000) @@ ("gpt-4o" :> 128000) @@
        ("claude-3-haiku" :> 200000) @@ ("claude-3-sonnet" :> 200000),
     PRICING_TABLE |->
        ("gpt-4o-mini" :> [input |-> 15, output |-> 60]) @@
        ("gpt-4o" :> [input |-> 500, output |-> 1500]) @@
        ("claude-3-haiku" :> [input |-> 25, output |-> 125])]

\* The dicts as config.py defines them.  Prices are USD per token, in units
\* of 1e-8 USD: 0.00015 / 1000 = 15e-8, and so on.
ConfigAtImport ==
    [MODEL_ROUTING_THRESHOLDS |->
        ("openai" :> [threshold |-> 500,
                      cheap_model |-> "gpt-4o-mini",
                      premium_model |-> "gpt-4o"]) @@
        ("anthropic" :> [threshold |-> 500,
                         cheap_model |-> "claude-3-haiku",
                         premium_model |-> "claude-3-sonnet"]),
     MODEL_TOKEN_LIMITS |->
        ("gpt-4o-mini" :> 128000) @@ ("gpt-4o" :> 128000) @@
        ("claude-3-haiku" :> 200000) @@ ("claude-3-sonnet" :> 200000),
     PRICING_TABLE |->
        ("gpt-4o-mini" :> [input |-> 15, output |-> 60]) @@
        ("gpt-4o" :> [input |-> 500, output |-> 1500]) @@
        ("claude-3-haiku" :> [input |-> 25, output |-> 125]) @@
        ("claude-3-sonnet" :> [input |-> 300, output |-> 1500])]

MODEL_ROUTING_THRESHOLDS == config.MODEL_ROUTING_THRESHOLDS

MODEL_TOKEN_LIMITS == config.MODEL_TOKEN_LIMITS

PRICING_TABLE == config.PRICING_TABLE

\* 0.55, in units of 1e-4.
CONFIDENCE_THRESHOLD == 5500

MAX_OUTPUT_TOKENS == 500

Models == DOMAIN MODEL_TOKEN_LIMITS

\* ------------------------------------------------------------------------
\* Outcome of a call: a returned value, or a raised exception
\* ------------------------------------------------------------------------

NoExc == [type |-> "", msg |-> ""]

Exc(type, msg) == [type |-> type, msg |-> msg]

\* ------------------------------------------------------------------------
\* Router (sentinel/core/router.py as imported by the policy engine)
\* ------------------------------------------------------------------------

\* route_model with the boundary on the cheap side.
route_model_strict(provider, input_tokens) ==
    IF provider \notin DOMAIN MODEL_ROUTING_THRESHOLDS
    THEN [exc |-> Exc("UnsupportedProviderError", provider), value |-> ""]
    ELSE LET cfg == MODEL_ROUTING_THRESHOLDS[provider]
         IN  [exc |-> NoExc,
              value |-> IF input_tokens <= cfg.threshold
                        THEN cfg.cheap_model ELSE cfg.premium_model]

\* The pipeline imports route_model(provider, input_tokens) from the router
\* module; the router module at hand only holds the earlier confidence-based
\* select_model/route_request, which nothing calls.  route_model follows its
\* contract over MODEL_ROUTING_THRESHOLDS: the model, or "" with the
\* unsupported-provider error.
route_model(provider, input_tokens) ==
    IF provider \notin DOMAIN MODEL_ROUTING_THRESHOLDS
    THEN [exc |-> Exc("UnsupportedProviderError", provider), value |-> ""]
    ELSE LET cfg == MODEL_ROUTING_THRESHOLDS[provider]
         IN  [exc |-> NoExc,
              value |-> IF input_tokens < cfg.threshold
                        THEN cfg.cheap_model ELSE cfg.premium_model]

\* ------------------------------------------------------------------------
\* Token estimator, overflow guard, cost estimator
\* (sentinel/core/cost_estimator.py)
\* ------------------------------------------------------------------------

Boundaries ==
    {0} \cup {MODEL_ROUTING_THRESHOLDS[p].threshold : p \in ALLOWED_PROVIDERS}
        \cup {MODEL_TOKEN_LIMITS[m] : m \in Models}
        \cup {MODEL_TOKEN_LIMITS[m] - MAX_OUTPUT_TOKENS : m \in Models}

\* The token counts enumerated: the values at and around every boundary.
TokenSet ==
    {n \in UNION {(b - TokenSlack)..(b + TokenSlack) : b \in Boundaries} : n >= 0}

\* len(encoding.encode(text)): tiktoken is an external tokenizer.  Its result
\* is some count between 1 and the number of characters (0 for the empty
\* text); the set of counts it can give, among the enumerated ones.
_estimate_openai_tokens(text, model) ==
    IF len(text) = 0 THEN {0}
    ELSE {n \in TokenSet : 1 <= n /\ n <= len(text)}

\* math.ceil(len(text) / 4)
_estimate_anthropic_tokens(text) == (len(text) + 3) \div 4

\* estimate_input_tokens counting every provider but openai by the heuristic.
estimate_input_tokens_heuristic_default(query, context, provider, model) ==
    LET combined == Combined(query, context)
    IN  IF provider = "openai"
        THEN {[exc |-> NoExc, value |-> n] :
                 n \in _estimate_openai_tokens(combined, model)}
        ELSE {[exc |-> NoExc, value |-> _estimate_anthropic_tokens(combined)]}

\* The set of outcomes of estimate_input_tokens.
estimate_input_tokens(query, context, provider, model) ==
    LET combined == Combined(query, context)
    IN  IF provider = "openai"
        THEN {[exc |-> NoExc, value |-> n] :
                 n \in _estimate_openai_tokens(combined, model)}
        ELSE IF provider = "anthropic"
        THEN {[exc |-> NoExc, value |-> _estimate_anthropic_tokens(combined)]}
        ELSE {[exc |-> Exc("ValueError",
                           "Unsupported provider for token estimation."),
               value |-> -1]}

estimate_output_tokens == MAX_OUTPUT_TOKENS

\* (input_tokens / 1000) * pricing["input"] + (output_tokens / 1000) *
\* pricing["output"], rounded to 8 decimals: the counts of 1e-8 USD it can
\* return (one, or two on a tie).
estimate_cost(input_tokens, output_tokens, model) ==
    LET pricing == PRICING_TABLE[model]
        input_cost == Frac(input_tokens * pricing.input, 1000)
        output_cost == Frac(output_tokens * pricing.output, 1000)
    IN  RoundOutcomes(FracAdd(input_cost, output_cost))

\* pricing = PRICING_TABLE[model]: the KeyError of a model without an entry.
estimate_cost_exc(model) ==
    IF model \in DOMAIN PRICING_TABLE THEN NoExc ELSE Exc("KeyError", model)

\* check_token_overflow comparing the input tokens alone with the limit.
check_token_overflow_input_only(input_tokens, output_tokens, model) ==
    LET model_limit == MODEL_TOKEN_LIMITS[model]
    IN  IF input_tokens > model_limit
        THEN Exc("ValueError", "token_overflow")
        ELSE NoExc

\* check_token_overflow rejecting at the limit itself.
check_token_overflow_inclusive(input_tokens, output_tokens, model) ==
    LET model_limit == MODEL_TOKEN_LIMITS[model]
    IN  IF input_tokens + output_tokens >= model_limit
        THEN Exc("ValueError", "token_overflow")
        ELSE NoExc

\* The exception raised, NoExc when it returns.
check_token_overflow(input_tokens, output_tokens, model) ==
    IF model \notin DOMAIN MODEL_TOKEN_LIMITS THEN Exc("KeyError", model)
    ELSE LET model_limit == MODEL_TOKEN_LIMITS[model]
         IN  IF input_tokens + output_tokens > model_limit
             THEN Exc("ValueError", "token_overflow")
             ELSE NoExc

\* ------------------------------------------------------------------------
\* Confidence scorer (sentinel/core/confidence.py)
\* ------------------------------------------------------------------------

\* re.findall(r"\b\w+\b", text.lower()): the maximal runs of word characters.
_tokenize(text) ==
    LET t == lower(text)
        word(i) == IsWord(t[i].c)
    IN  {SubSeq(t, i, j) : <<i, j>> \in
            {p \in (1..Len(t)) \X (1..Len(t)) :
                /\ p[1] <= p[2]
                /\ \A k \in p[1]..p[2] : word(k)
                /\ (p[1] = 1 \/ ~word(p[1] - 1))
                /\ (p[2] = Len(t) \/ ~word(p[2] + 1))}}

\* _lexical_overlap dividing by the number of context tokens.
_lexical_overlap_by_context(answer, context) ==
    LET answer_tokens == _tokenize(answer)
        context_tokens == _tokenize(context)
    IN  IF answer_tokens = {} \/ context_tokens = {} THEN Frac(0, 1)
        ELSE Frac(Cardinality(answer_tokens \cap context_tokens),
                  Cardinality(context_tokens))

\* The three sub-scores, as exact fractions of 1.
_lexical_overlap(answer, context) ==
    LET answer_tokens == _tokenize(answer)
        context_tokens == _tokenize(context)
    IN  IF answer_tokens = {} \/ context_tokens = {} THEN Frac(0, 1)
        ELSE Frac(Cardinality(answer_tokens \cap context_tokens),
                  Cardinality(answer_tokens))

_context_utilization(answer, context) ==
    LET answer_tokens == _tokenize(answer)
        context_tokens == _tokenize(context)
    IN  IF context_tokens = {} THEN Frac(0, 1)
        ELSE Frac(Cardinality(answer_tokens \cap context_tokens),
                  Cardinality(context_tokens))

_length_sanity(answer, context) ==
    LET answer_len == len(strip(answer))
        context_len == len(strip(context))
    IN  IF context_len = 0 THEN Frac(0, 1)
        ELSE IF answer_len > context_len THEN Frac(1, 1)
        ELSE Frac(answer_len, context_len)

\* k * x for a fraction x.
FracScale(k, x) == Frac(k * (x.q * x.d + x.n), x.d)

\* The score as a percentage: the clamp bounds and the scale of another unit.
compute_confidence_percent(answer, context) ==
    LET weighted_score ==
            FracAdd(FracAdd(FracScale(500000, _lexical_overlap(answer, context)),
                            FracScale(300000, _context_utilization(answer, context))),
                    FracScale(200000, _length_sanity(answer, context)))
    IN  Max(0, Min(1000000, RoundHalfEven(weighted_score)))

\* 0.5 * lexical + 0.3 * utilization + 0.2 * length, rounded to 4 decimals
\* and clamped: a count of 1e-4.
compute_confidence(answer, context) ==
    LET weighted_score ==
            FracAdd(FracAdd(FracScale(5000, _lexical_overlap(answer, context)),
                            FracScale(3000, _context_utilization(answer, context))),
                    FracScale(2000, _length_sanity(answer, context)))
    IN  Max(0, Min(10000, RoundHalfEven(weighted_score)))

\* ------------------------------------------------------------------------
\* Refusal policy (sentinel/core/refusal.py)
\* ------------------------------------------------------------------------

\* should_refuse refusing at the threshold itself.
should_refuse_inclusive(confidence_score, context) ==
    IF context = <<>> \/ strip(context) = <<>> THEN TRUE
    ELSE IF confidence_score <= CONFIDENCE_THRESHOLD THEN TRUE
    ELSE FALSE

should_refuse(confidence_score, context) ==
    IF context = <<>> \/ strip(context) = <<>> THEN TRUE
    ELSE IF confidence_score < CONFIDENCE_THRESHOLD THEN TRUE
    ELSE FALSE

\* ------------------------------------------------------------------------
\* State
\* ------------------------------------------------------------------------

VARIABLES
    req,            \* request id -> the state of that POST /govern request
    sentinel_logs,  \* the rows committed to the sentinel_logs table
    call            \* one call of a pure function: its arguments and result

vars == <<req, sentinel_logs, call, config>>

NoCall == [fn |-> "", returned |-> FALSE]

\* ------------------------------------------------------------------------
\* The pure functions, each applied to arguments drawn from bounded sets
\* ------------------------------------------------------------------------

ScoreSet ==
    {0, CONFIDENCE_THRESHOLD - 1, CONFIDENCE_THRESHOLD,
     CONFIDENCE_THRESHOLD + 1, 10000}

Pending(fn, argsets) ==
    {[fn |-> fn, args |-> a, returned |-> FALSE] : a \in argsets}

PureCalls ==
    Pending("should_refuse",
            [confidence_score : ScoreSet, context : TextsUpTo(MaxLen)])
    \cup
    Pending("route_model",
            [provider : ALLOWED_PROVIDERS \cup {"cohere"}, input_tokens : TokenSet])
    \cup
    Pending("estimate_input_tokens",
            [query : {<<Run("a", 1)>>}, context : TextsUpTo(MaxLen),
             provider : ALLOWED_PROVIDERS \cup {"cohere"}, model : Models])
    \cup
    Pending("check_token_overflow",
            [input_tokens : TokenSet, output_tokens : {0, MAX_OUTPUT_TOKENS},
             model : Models])
    \cup
    Pending("estimate_cost",
            [input_tokens : TokenSet, output_tokens : TokenSet, model : Models])
    \cup
    Pending("compute_confidence",
            [answer : TextsUpTo(MaxLen), context : TextsUpTo(MaxLen)])

InitPure ==
    /\ config = ConfigAtImport
    /\ req = <<>>
    /\ sentinel_logs = <<>>
    /\ call \in PureCalls

Returns(result) ==
    /\ call' = [call EXCEPT !.returned = TRUE] @@ [result |-> result]
    /\ UNCHANGED <<req, sentinel_logs, config>>

CallShouldRefuse ==
    /\ call.fn = "should_refuse" /\ ~call.returned
    /\ Returns(should_refuse(call.args.confidence_score, call.args.context))

CallRouteModel ==
    /\ call.fn = "route_model" /\ ~call.returned
    /\ Returns(route_model(call.args.provider, call.args.input_tokens))

CallEstimateInputTokens ==
    /\ call.fn = "estimate_input_tokens" /\ ~call.returned
    /\ \E out \in estimate_input_tokens(call.args.query, call.args.context,
                                        call.args.provider, call.args.model) :
           Returns(out)

CallCheckTokenOverflow ==
    /\ call.fn = "check_token_overflow" /\ ~call.returned
    /\ Returns(check_token_overflow(call.args.input_tokens,
                                    call.args.output_tokens, call.args.model))

\* The result is the cost, or -1 where the call raises.
CallEstimateCost ==
    /\ call.fn = "estimate_cost" /\ ~call.returned
    /\ IF estimate_cost_exc(call.args.model) # NoExc
       THEN Returns(-1)
       ELSE \E cost \in estimate_cost(call.args.input_tokens,
                                      call.args.output_tokens, call.args.model) :
               Returns(cost)

CallComputeConfidence ==
    /\ call.fn = "compute_confidence" /\ ~call.returned
    /\ Returns(compute_confidence(call.args.answer, call.args.context))

NextPure ==
    \/ CallShouldRefuse
    \/ CallRouteModel
    \/ CallEstimateInputTokens
    \/ CallCheckTokenOverflow
    \/ CallEstimateCost
    \/ CallComputeConfidence

\* ------------------------------------------------------------------------
\* Requests and provider behaviour enumerated for POST /govern
\* ------------------------------------------------------------------------

Word == <<Run("a", 1)>>

Blank == <<Run(" ", 2)>>

\* " a.a ": surrounded by blanks, one distinct word.
ShortContext == <<Run(" ", 1), Run("a", 1), Run(".", 1), Run("a", 1), Run(" ", 1)>>

\* A context of k characters: a word and punctuation.
PaddedContext(k) == <<Run("a", 1), Run(".", k - 1)>>

\* With the one-character query, the context lengths whose anthropic estimate
\* is b - 1 and b tokens at the routing threshold b, and limit - cap and
\* limit - cap + 1 tokens at the token limit.
EdgeLengths ==
    LET t == MODEL_ROUTING_THRESHOLDS["anthropic"].threshold - 1
        l == MODEL_TOKEN_LIMITS["claude-3-sonnet"] - MAX_OUTPUT_TOKENS
    IN  {4 * t - 2, 4 * t - 1, 4 * l - 2, 4 * l - 1}

RequestBodies ==
    [query : {Word, Blank},
     context : {ShortContext, Blank, <<>>}
                   \cup {PaddedContext(k) : k \in EdgeLengths},
     provider : ALLOWED_PROVIDERS \cup {"cohere"}]

\* What the provider answers: the context itself, a word of it, a word that
\* is not in it, nothing.
Answers(context) == {context, Word, <<Run("B", 1)>>, <<>>}

\* response.usage is None
NoUsage == [input_tokens |-> -1, output_tokens |-> -1]

Usages == {NoUsage, [input_tokens |-> 12, output_tokens |-> 5]}

Latencies == {0, 250}

\* The exceptions of the provider SDKs: the cause, and str(e).
ProviderExceptions ==
    {[cause |-> "timeout", msg |-> "Request timed out."],
     [cause |-> "timeout", msg |-> "Read timeout"],
     [cause |-> "other", msg |-> "Error code: 504 - Gateway Timeout"],
     [cause |-> "rate_limit", msg |-> "Error code: 429 - Rate limit reached"],
     [cause |-> "other", msg |-> "Connection error."],
     [cause |-> "other", msg |-> "Error code: 400 - failed to generate"],
     [cause |-> "malformed", msg |-> "list index out of range"]}

\* sub in msg.lower(), for the messages above.
Contains(msg, sub) ==
    \/ sub = "timeout" /\ msg \in {"Read timeout",
                                   "Error code: 504 - Gateway Timeout"}
    \/ sub = "rate" /\ msg \in {"Error code: 429 - Rate limit reached",
                                "Error code: 400 - failed to generate"}

\* What the provider does with one call: a response (whose content can be
\* None for openai, whose usage can be missing for anthropic) or an exception.
ProviderOutcomes(provider, context) ==
    {[kind |-> "response", answer |-> a, usage |-> u, latency_ms |-> l] :
        a \in Answers(context) \cup (IF provider = "openai" THEN {None} ELSE {}),
        u \in Usages, l \in Latencies}
    \cup
    {[kind |-> "exception", cause |-> e.cause, msg |-> e.msg] :
        e \in ProviderExceptions}

\* ------------------------------------------------------------------------
\* POST /govern (sentinel/api/routes.py, sentinel/core/policy_engine.py)
\* ------------------------------------------------------------------------

\* No character of the message is doubled: every run has length 1.
REFUSAL_MESSAGE ==
    LET s ==   <<"R", "e", "q", "u", "e", "s", "t", " ", "r", "e", "f", "u", "s",
             "e", "d", " ", "d", "u", "e", " ", "t", "o", " ", "l", "o", "w",
             " ", "c", "o", "n", "f", "i", "d", "e", "n", "c", "e", " ", "i",
             "n", " ", "c", "o", "n", "t", "e", "x", "t", " ", "g", "r", "o",
             "u", "n", "d", "i", "n", "g", ".">>
    IN  [i \in 1..Len(s) |-> Run(s[i], 1)]

NoResponse == [status |-> 0]

\* entry: the function the caller entered, govern (POST /govern) or
\* execute_governance itself.  outcome: what the provider did with the call
\* of this request.  failed_at: the position the exception was raised at.
\* rows: the rows of sentinel_logs committed for this request.
NewRequest(body) ==
    [pc |-> "Received", entry |-> "govern", body |-> body,
     outcome |-> [kind |-> "none"], failed_at |-> "", rows |-> 0,
     query |-> None, context |-> None, provider |-> "", llm_answer |-> None,
     temp_model |-> "", input_tokens |-> -1, model_used |-> "",
     output_tokens_est |-> -1, estimated_cost |-> -1,
     answer |-> None, actual_input_tokens |-> -1, actual_output_tokens |-> -1,
     latency_ms |-> -1, actual_cost |-> -1, confidence_score |-> -1,
     refusal_flag |-> FALSE, result |-> [returned |-> FALSE],
     exc |-> NoExc, log |-> "none", response |-> NoResponse, calls |-> <<>>]

\* execute_governance(query, context, provider) called with the arguments as
\* they are: no GovernRequest has validated or stripped them.
DirectCall(body) ==
    [pc |-> "Start", entry |-> "execute_governance", query |-> body.query,
     context |-> body.context, provider |-> body.provider] @@ NewRequest(body)

InitGovern ==
    /\ config = ConfigAtImport
    /\ req \in [{1} -> {NewRequest(b) : b \in RequestBodies}
                            \cup {DirectCall(b) : b \in RequestBodies}]
    /\ sentinel_logs = <<>>
    /\ call = NoCall

At(r, pc) == req[r].pc = pc

\* The variables of execute_governance as module globals: what one request
\* assigns, every request in flight sees.
StepSharingLocals(r, pc, made, assigned) ==
    /\ req' = [q \in DOMAIN req |->
                  IF q = r
                  THEN assigned @@ [pc |-> pc, calls |-> req[r].calls \o made]
                                @@ req[r]
                  ELSE assigned @@ req[q]]
    /\ UNCHANGED <<sentinel_logs, call, config>>

\* The request moves on: the fields assigned, the position, the calls made.
Step(r, pc, made, assigned) ==
    /\ req' = [req EXCEPT ![r] =
                  assigned @@ [pc |-> pc, calls |-> req[r].calls \o made] @@ req[r]]
    /\ UNCHANGED <<sentinel_logs, call, config>>

\* A step that fails handing back what the request has so far.
AbortWithPartialResult(r, made, e, noted) ==
    Step(r, "Error", made,
         noted @@ [exc |-> e, failed_at |-> req[r].pc,
                   result |-> [returned |-> TRUE, provider |-> req[r].provider,
                               model_used |-> req[r].model_used]])

\* An exception leaves execute_governance (or GovernResponse) at this step:
\* nothing is assigned but what the history notes.
Abort(r, made, e, noted) ==
    Step(r, "Error", made, noted @@ [exc |-> e, failed_at |-> req[r].pc])

Raise(r, made, e) == Abort(r, made, e, <<>>)

\* GovernRequest with min_length=1 alone, without the strip_whitespace
\* validator.
ValidBodyMinLength(body) ==
    /\ len(body.query) >= 1
    /\ len(body.context) >= 1
    /\ body.provider \in ALLOWED_PROVIDERS

\* GovernRequest: min_length=1 and strip_whitespace on query and context,
\* ProviderEnum on provider.  An invalid body is answered 422 by the
\* framework and govern is not entered.
ValidBody(body) ==
    /\ len(body.query) >= 1 /\ strip(body.query) # <<>>
    /\ len(body.context) >= 1 /\ strip(body.context) # <<>>
    /\ body.provider \in ALLOWED_PROVIDERS

Validate(r) ==
    /\ At(r, "Received")
    /\ LET body == req[r].body
       IN  IF ValidBody(body)
           THEN Step(r, "Start", <<>>,
                     [query |-> strip(body.query), context |-> strip(body.context),
                      provider |-> body.provider])
           ELSE Step(r, "Rejected", <<>>,
                     [response |-> [status |-> 422, kind |-> "RequestValidationError"]])

\* policy_engine.py line 26: temp_model = route_model(provider, 0)
TempRoute(r) ==
    /\ At(r, "Start")
    /\ LET routed == route_model(req[r].provider, 0)
       IN  IF routed.exc # NoExc
           THEN Raise(r, <<"route_model">>, routed.exc)
           ELSE Step(r, "TempRouted", <<"route_model">>,
                     [temp_model |-> routed.value])

\* STEP 1: input_tokens = estimate_input_tokens(query, context, provider, temp_model)
EstimateTokens(r) ==
    /\ At(r, "TempRouted")
    /\ \E out \in estimate_input_tokens(req[r].query, req[r].context,
                                        req[r].provider, req[r].temp_model) :
          IF out.exc # NoExc
          THEN Raise(r, <<"estimate_input_tokens">>, out.exc)
          ELSE Step(r, "TokenEstimated", <<"estimate_input_tokens">>,
                    [input_tokens |-> out.value])

\* STEP 2 routing with a fixed provider instead of the request's.
RouteFixedProvider(r) ==
    /\ At(r, "TokenEstimated")
    /\ LET routed == route_model("openai", req[r].input_tokens)
       IN  IF routed.exc # NoExc
           THEN Raise(r, <<"route_model">>, routed.exc)
           ELSE Step(r, "Routed", <<"route_model">>, [model_used |-> routed.value])

\* STEP 2: model_used = route_model(provider=provider, input_tokens=input_tokens)
Route(r) ==
    /\ At(r, "TokenEstimated")
    /\ LET routed == route_model(req[r].provider, req[r].input_tokens)
       IN  IF routed.exc # NoExc
           THEN Raise(r, <<"route_model">>, routed.exc)
           ELSE Step(r, "Routed", <<"route_model">>, [model_used |-> routed.value])

\* STEP 3 and 4: output_tokens_est = estimate_output_tokens();
\* check_token_overflow(input_tokens, output_tokens_est, model_used)
CheckOverflow(r) ==
    /\ At(r, "Routed")
    /\ LET output_tokens_est == estimate_output_tokens
           e == check_token_overflow(req[r].input_tokens, output_tokens_est,
                                     req[r].model_used)
           made == <<"estimate_output_tokens", "check_token_overflow">>
       IN  IF e # NoExc
           THEN Raise(r, made, e)
           ELSE Step(r, "OverflowChecked", made,
                     [output_tokens_est |-> output_tokens_est])

\* STEP 5: estimated_cost = estimate_cost(input_tokens, output_tokens_est, model_used)
ProjectCost(r) ==
    /\ At(r, "OverflowChecked")
    /\ IF estimate_cost_exc(req[r].model_used) # NoExc
       THEN Raise(r, <<"estimate_cost">>, estimate_cost_exc(req[r].model_used))
       ELSE \E cost \in estimate_cost(req[r].input_tokens,
                                      req[r].output_tokens_est, req[r].model_used) :
               Step(r, "CostProjected", <<"estimate_cost">>,
                    [estimated_cost |-> cost])

\* ------------------------------------------------------------------------
\* Provider invoker (sentinel/core/llm_client.py)
\* ------------------------------------------------------------------------

\* except Exception as e: the ValueError raised for str(e).
Classify(msg) ==
    IF Contains(msg, "timeout") THEN Exc("ValueError", "timeout_error")
    ELSE IF Contains(msg, "rate") THEN Exc("ValueError", "rate_limit_error")
    ELSE Exc("ValueError", "provider_error")

Failed(e) ==
    [exc |-> e, answer |-> None, input_tokens |-> -1, output_tokens |-> -1,
     latency_ms |-> -1]

\* call_llm when the provider behaves as outcome.
call_llm(provider, model, query, context, outcome) ==
    IF provider \notin {"openai", "anthropic"}
    THEN Failed(Classify("provider_error"))
    ELSE IF outcome.kind = "exception"
    THEN Failed(Classify(outcome.msg))
    ELSE IF provider = "openai" /\ outcome.usage = NoUsage
    THEN Failed(Classify("'NoneType' object has no attribute 'prompt_tokens'"))
    ELSE [exc |-> NoExc,
          answer |-> outcome.answer,
          input_tokens |-> IF outcome.usage = NoUsage THEN 0
                           ELSE outcome.usage.input_tokens,
          output_tokens |-> IF outcome.usage = NoUsage THEN 0
                            ELSE outcome.usage.output_tokens,
          latency_ms |-> outcome.latency_ms]

\* STEP 6 calling the provider a second time after a first failure.
InvokeRetrying(r) ==
    /\ At(r, "CostProjected")
    /\ \E outcome \in ProviderOutcomes(req[r].provider, req[r].context) :
          LET got == call_llm(req[r].provider, req[r].model_used, req[r].query,
                              req[r].context, outcome)
          IN  IF got.exc # NoExc
              THEN IF "call_llm" \in {req[r].calls[i] : i \in DOMAIN req[r].calls}
                   THEN Abort(r, <<"call_llm">>, got.exc, [outcome |-> outcome])
                   ELSE Step(r, "CostProjected", <<"call_llm">>, <<>>)
              ELSE Step(r, "Invoked", <<"call_llm">>,
                        [outcome |-> outcome,
                         answer |-> got.answer, llm_answer |-> got.answer,
                         actual_input_tokens |-> got.input_tokens,
                         actual_output_tokens |-> got.output_tokens,
                         latency_ms |-> got.latency_ms])

\* STEP 6: answer, actual_input_tokens, actual_output_tokens, latency_ms =
\* call_llm(provider, model_used, query, context)
Invoke(r) ==
    /\ At(r, "CostProjected")
    /\ \E outcome \in ProviderOutcomes(req[r].provider, req[r].context) :
          LET got == call_llm(req[r].provider, req[r].model_used, req[r].query,
                              req[r].context, outcome)
          IN  IF got.exc # NoExc
              THEN Abort(r, <<"call_llm">>, got.exc, [outcome |-> outcome])
              ELSE Step(r, "Invoked", <<"call_llm">>,
                        [outcome |-> outcome,
                         answer |-> got.answer, llm_answer |-> got.answer,
                         actual_input_tokens |-> got.input_tokens,
                         actual_output_tokens |-> got.output_tokens,
                         latency_ms |-> got.latency_ms])

\* STEP 7 pricing the estimate once more instead of the reported counts.
FinalizeCostFromEstimate(r) ==
    /\ At(r, "Invoked")
    /\ \E cost \in estimate_cost(req[r].input_tokens, req[r].output_tokens_est,
                                 req[r].model_used) :
          Step(r, "CostFinalized", <<"estimate_cost">>, [actual_cost |-> cost])

\* STEP 7: actual_cost = estimate_cost(actual_input_tokens,
\* actual_output_tokens, model_used)
FinalizeCost(r) ==
    /\ At(r, "Invoked")
    /\ IF estimate_cost_exc(req[r].model_used) # NoExc
       THEN Raise(r, <<"estimate_cost">>, estimate_cost_exc(req[r].model_used))
       ELSE \E cost \in estimate_cost(req[r].actual_input_tokens,
                                      req[r].actual_output_tokens,
                                      req[r].model_used) :
               Step(r, "CostFinalized", <<"estimate_cost">>, [actual_cost |-> cost])

\* STEP 8: confidence_score = compute_confidence(answer, context); the
\* tokenizer calls answer.lower(), which None does not have.
ScoreConfidence(r) ==
    /\ At(r, "CostFinalized")
    /\ IF req[r].answer = None
       THEN Raise(r, <<"compute_confidence">>,
                  Exc("AttributeError", "'NoneType' object has no attribute 'lower'"))
       ELSE Step(r, "ConfidenceScored", <<"compute_confidence">>,
                 [confidence_score |->
                     compute_confidence(req[r].answer, req[r].context)])

\* STEP 9 without the overwrite: the provider's answer kept on refusal.
GovernedAnswerKept(refusal_flag, answer) == answer

\* if refusal_flag: answer = "Request refused due to low confidence ..."
GovernedAnswer(refusal_flag, answer) ==
    IF refusal_flag THEN REFUSAL_MESSAGE ELSE answer

\* STEP 9 clearing what was measured for an answer that is not surfaced.
DecideClearingTelemetry(r) ==
    /\ At(r, "ConfidenceScored")
    /\ LET refusal_flag == should_refuse(req[r].confidence_score, req[r].context)
       IN  Step(r, "Decided", <<"should_refuse">>,
                (IF refusal_flag
                 THEN [confidence_score |-> 0, actual_cost |-> 0,
                       actual_output_tokens |-> 0, latency_ms |-> 0]
                 ELSE <<>>) @@
                [refusal_flag |-> refusal_flag,
                 answer |-> GovernedAnswer(refusal_flag, req[r].answer)])

\* STEP 9: refusal_flag = should_refuse(confidence_score, context)
Decide(r) ==
    /\ At(r, "ConfidenceScored")
    /\ LET refusal_flag == should_refuse(req[r].confidence_score, req[r].context)
       IN  Step(r, "Decided", <<"should_refuse">>,
                [refusal_flag |-> refusal_flag,
                 answer |-> GovernedAnswer(refusal_flag, req[r].answer)])

\* STEP 10: the dict returned by execute_governance.
ReturnResult(r) ==
    /\ At(r, "Decided")
    /\ Step(r, "Done", <<>>,
            [result |-> [returned |-> TRUE,
                         answer |-> req[r].answer,
                         refusal |-> req[r].refusal_flag,
                         confidence_score |-> req[r].confidence_score,
                         model_used |-> req[r].model_used,
                         estimated_cost |-> req[r].estimated_cost,
                         actual_cost |-> req[r].actual_cost,
                         input_tokens |-> req[r].actual_input_tokens,
                         output_tokens |-> req[r].actual_output_tokens,
                         latency_ms |-> req[r].latency_ms,
                         provider |-> req[r].provider]])

\* ------------------------------------------------------------------------
\* Audit logger (sentinel/core/logger.py)
\* ------------------------------------------------------------------------

\* hashlib.sha256(query.encode("utf-8")).hexdigest(): a str holding the digest
\* of the text, which is none of the texts of the model; digests of
\* different texts differ.
_hash_query(query) == <<[sha256 |-> query]>>

\* The row with the query as it came in the query_hash column.
LogRowRawQuery(record) ==
    [query_hash |-> record.query,
     provider |-> record.provider,
     model_used |-> record.model_used,
     estimated_cost |-> record.estimated_cost,
     actual_cost |-> record.actual_cost,
     confidence_score |-> record.confidence_score,
     refusal_flag |-> record.refusal_flag,
     latency_ms |-> record.latency_ms,
     input_tokens |-> record.input_tokens,
     output_tokens |-> record.output_tokens]

\* The row of the INSERT (the timestamp column, the clock's, is left out).
LogRow(record) ==
    [query_hash |-> _hash_query(record.query),
     provider |-> record.provider,
     model_used |-> record.model_used,
     estimated_cost |-> record.estimated_cost,
     actual_cost |-> record.actual_cost,
     confidence_score |-> record.confidence_score,
     refusal_flag |-> record.refusal_flag,
     latency_ms |-> record.latency_ms,
     input_tokens |-> record.input_tokens,
     output_tokens |-> record.output_tokens]

\* What the database does during log_request: all goes well, a statement
\* before or at the commit fails and nothing is committed, or the commit
\* takes effect and the commit call or a close after it fails.
DbOutcomes == {"ok", "error_before_commit", "error_after_commit"}

\* log_request swallowing the exception, logging being best effort.
log_request_exc_swallowed(db) == NoExc

\* The exception log_request raises, NoExc when it returns.
log_request_exc(db) ==
    IF db = "ok" THEN NoExc ELSE Exc("RuntimeError", "logging_failure")

\* log_request running its INSERT a second time.
log_request_rows_twice(record, db) ==
    IF db \in {"ok", "error_after_commit"}
    THEN <<LogRow(record), LogRow(record)>> ELSE <<>>

\* The rows log_request commits.
log_request_rows(record, db) ==
    IF db \in {"ok", "error_after_commit"} THEN <<LogRow(record)>> ELSE <<>>

\* routes.py lines 20-31: log_request({...})
LogRequest(r) ==
    /\ At(r, "Done")
    /\ req[r].entry = "govern"
    /\ \E db \in DbOutcomes :
          LET result == req[r].result
              record == [query |-> req[r].query,
                         provider |-> result.provider,
                         model_used |-> result.model_used,
                         estimated_cost |-> result.estimated_cost,
                         actual_cost |-> result.actual_cost,
                         confidence_score |-> result.confidence_score,
                         refusal_flag |-> result.refusal,
                         latency_ms |-> result.latency_ms,
                         input_tokens |-> result.input_tokens,
                         output_tokens |-> result.output_tokens]
              e == log_request_exc(db)
          IN  /\ req' = [req EXCEPT ![r] =
                            [pc |-> IF e = NoExc THEN "Logged" ELSE "Error",
                             exc |-> e, log |-> db,
                             failed_at |-> IF e = NoExc THEN "" ELSE "Done",
                             rows |-> req[r].rows
                                         + Len(log_request_rows(record, db)),
                             calls |-> req[r].calls \o <<"log_request">>] @@ req[r]]
              /\ sentinel_logs' = sentinel_logs \o log_request_rows(record, db)
              /\ UNCHANGED <<call, config>>

\* ------------------------------------------------------------------------
\* The response of POST /govern (sentinel/api/routes.py, sentinel/types.py)
\* ------------------------------------------------------------------------

\* The field constraints of GovernResponse.
ValidGovernResponse(result) ==
    /\ 0 <= result.confidence_score /\ result.confidence_score <= 10000
    /\ result.estimated_cost >= 0
    /\ result.input_tokens >= 0
    /\ result.output_tokens >= 0
    /\ result.latency_ms >= 0
    /\ result.provider \in ALLOWED_PROVIDERS

\* routes.py lines 33-43: return GovernResponse(...)
Respond(r) ==
    /\ At(r, "Logged")
    /\ LET result == req[r].result
       IN  IF ValidGovernResponse(result)
           THEN Step(r, "Responded", <<>>,
                     [response |->
                        [status |-> 200, kind |-> "GovernResponse",
                         body |-> [answer |-> result.answer,
                                   refusal |-> result.refusal,
                                   confidence_score |-> result.confidence_score,
                                   model_used |-> result.model_used,
                                   estimated_cost |-> result.estimated_cost,
                                   input_tokens |-> result.input_tokens,
                                   output_tokens |-> result.output_tokens,
                                   latency_ms |-> result.latency_ms,
                                   provider |-> result.provider]]])
           ELSE Raise(r, <<>>, Exc("ValueError", "validation error for GovernResponse"))

\* routes.py lines 45-72: the except clauses.  Any other exception leaves
\* govern and the framework answers 500 without an error body.
ErrorResponseOf(e) ==
    IF e.type = "ValueError"
    THEN [status |-> 400, kind |-> "HTTPException",
          body |-> [error |-> "Governance execution failed", error_type |-> e.msg]]
    ELSE IF e.type = "RuntimeError"
    THEN IF e.msg = "logging_failure"
         THEN [status |-> 503, kind |-> "HTTPException",
               body |-> [error |-> "Logging failure - system integrity preserved",
                         error_type |-> "internal_error"]]
         ELSE [status |-> 500, kind |-> "HTTPException",
               body |-> [error |-> "Internal server error",
                         error_type |-> "internal_error"]]
    ELSE [status |-> 500, kind |-> "ServerError"]

HandleError(r) ==
    /\ At(r, "Error")
    /\ req[r].entry = "govern"
    /\ Step(r, "Failed", <<>>, [response |-> ErrorResponseOf(req[r].exc)])

\* ------------------------------------------------------------------------
\* Specification
\* ------------------------------------------------------------------------

Init == InitGovern \/ InitPure

NextGovern ==
    \/ \E r \in DOMAIN req : Validate(r)
    \/ \E r \in DOMAIN req : TempRoute(r)
    \/ \E r \in DOMAIN req : EstimateTokens(r)
    \/ \E r \in DOMAIN req : Route(r)
    \/ \E r \in DOMAIN req : CheckOverflow(r)
    \/ \E r \in DOMAIN req : ProjectCost(r)
    \/ \E r \in DOMAIN req : Invoke(r)
    \/ \E r \in DOMAIN req : FinalizeCost(r)
    \/ \E r \in DOMAIN req : ScoreConfidence(r)
    \/ \E r \in DOMAIN req : Decide(r)
    \/ \E r \in DOMAIN req : ReturnResult(r)
    \/ \E r \in DOMAIN req : LogRequest(r)
    \/ \E r \in DOMAIN req : Respond(r)
    \/ \E r \in DOMAIN req : HandleError(r)

Next == NextGovern \/ NextPure

Spec == Init /\ [][Next]_vars

\* Requests to POST /govern in flight together, their steps interleaved: the
\* endpoint is a plain function, which the framework runs on worker threads.
ConcurrentBodies ==
    {[query |-> Word, context |-> ShortContext, provider |-> "openai"],
     [query |-> Word,
      context |-> PaddedContext(
          4 * (MODEL_ROUTING_THRESHOLDS["anthropic"].threshold - 1) - 1),
      provider |-> "anthropic"],
     [query |-> Word,
      context |-> PaddedContext(
          4 * (MODEL_TOKEN_LIMITS["claude-3-sonnet"] - MAX_OUTPUT_TOKENS) - 1),
      provider |-> "anthropic"],
     [query |-> Word, context |-> Blank, provider |-> "openai"],
     [query |-> Word, context |-> ShortContext, provider |-> "cohere"]}

InitConcurrent ==
    /\ config = ConfigAtImport
    /\ req \in [1..MaxRequests -> {NewRequest(b) : b \in ConcurrentBodies}]
    /\ sentinel_logs = <<>>
    /\ call = NoCall

SpecConcurrent == InitConcurrent /\ [][NextGovern]_vars

\* ------------------------------------------------------------------------
\* Properties
\* ------------------------------------------------------------------------

Returned(fn) == call.fn = fn /\ call.returned

Called(r, fn) == {i \in 1..Len(req[r].calls) : req[r].calls[i] = fn}

\* C1: POST /govern returns a success response only after log_request has
\* completed without error for the request; whenever log_request fails, the
\* request ends with the logging-failure error and no governed answer is
\* returned.
C1_SuccessOnlyAfterAudit ==
    \A r \in DOMAIN req :
        /\ req[r].response.status = 200 =>
              /\ Called(r, "log_request") # {}
              /\ req[r].log = "ok"
        /\ req[r].log \notin {"none", "ok"} =>
              /\ req[r].pc \in {"Error", "Failed"}
              /\ req[r].exc = Exc("RuntimeError", "logging_failure")
              /\ req[r].pc = "Failed" =>
                    /\ req[r].response.status = 503
                    /\ req[r].response.kind = "HTTPException"
                    /\ req[r].response.body.error_type = "internal_error"
                    /\ DOMAIN req[r].response.body = {"error", "error_type"}

C1_Witness ==
    \E r \in DOMAIN req :
        /\ req[r].log = "error_before_commit"
        /\ req[r].pc = "Failed"
        /\ req[r].response.status = 503

\* C2: the provider call happens only after check_token_overflow has passed
\* for the routed model; when the estimated input tokens plus the estimated
\* output tokens exceed the model's token limit, the request ends in a
\* token_overflow error and the provider is never invoked.
C2_ProviderOnlyAfterOverflowCheck ==
    \A r \in DOMAIN req :
        /\ Called(r, "call_llm") # {} =>
              /\ \E i \in Called(r, "check_token_overflow") :
                    \A j \in Called(r, "call_llm") : i < j
              /\ req[r].input_tokens + estimate_output_tokens
                    <= MODEL_TOKEN_LIMITS[req[r].model_used]
        /\ ( /\ req[r].model_used # ""
             /\ req[r].input_tokens + estimate_output_tokens
                   > MODEL_TOKEN_LIMITS[req[r].model_used] ) =>
              /\ Called(r, "call_llm") = {}
              /\ req[r].pc \in {"Routed", "Error", "Failed"}
              /\ req[r].pc = "Error" =>
                    req[r].exc = Exc("ValueError", "token_overflow")
              /\ req[r].pc = "Failed" =>
                    /\ req[r].response.status = 400
                    /\ req[r].response.body.error_type = "token_overflow"

C2_Witness ==
    \E r \in DOMAIN req :
        /\ req[r].pc = "Failed"
        /\ req[r].exc = Exc("ValueError", "token_overflow")
        /\ req[r].input_tokens <= MODEL_TOKEN_LIMITS[req[r].model_used]
        /\ Called(r, "check_token_overflow") # {}
        /\ Called(r, "call_llm") = {}

\* C3: in every result returned by execute_governance, if refusal is true
\* then answer is the fixed refusal message and not the provider's raw text.
C3_RefusalReplacesAnswer ==
    \A r \in DOMAIN req :
        (req[r].result.returned /\ req[r].result.refusal) =>
            /\ req[r].result.answer = REFUSAL_MESSAGE
            /\ req[r].result.answer # req[r].llm_answer

C3_Witness ==
    \E r \in DOMAIN req :
        /\ req[r].result.returned
        /\ req[r].result.refusal
        /\ req[r].llm_answer = <<Run("B", 1)>>

AllBlank(text) == \A i \in 1..Len(text) : IsSpace(text[i].c)

\* C4: should_refuse returns true whenever context is empty or all
\* whitespace, whatever the score; for any other context it returns true if
\* and only if the score is below CONFIDENCE_THRESHOLD (a score equal to the
\* threshold is not refused).
C4_ShouldRefuse ==
    Returned("should_refuse") =>
        call.result = ( \/ AllBlank(call.args.context)
                        \/ call.args.confidence_score < CONFIDENCE_THRESHOLD )

C4_Witness ==
    /\ Returned("should_refuse")
    /\ ~AllBlank(call.args.context)
    /\ call.args.confidence_score = CONFIDENCE_THRESHOLD
    /\ call.result = FALSE

\* C5: for every supported provider and token count, route_model returns the
\* provider's cheap model below the provider's threshold and its premium
\* model at or above it.
C5_RouteModel ==
    (Returned("route_model") /\ call.args.provider \in ALLOWED_PROVIDERS) =>
        LET cfg == MODEL_ROUTING_THRESHOLDS[call.args.provider]
        IN  /\ call.result.exc = NoExc
            /\ call.args.input_tokens < cfg.threshold =>
                  call.result.value = cfg.cheap_model
            /\ call.args.input_tokens >= cfg.threshold =>
                  call.result.value = cfg.premium_model

C5_Witness ==
    /\ Returned("route_model")
    /\ call.args.provider = "anthropic"
    /\ call.args.input_tokens = MODEL_ROUTING_THRESHOLDS["anthropic"].threshold
    /\ call.result.value = "claude-3-sonnet"

ModelsOf(provider) ==
    {MODEL_ROUTING_THRESHOLDS[provider].cheap_model,
     MODEL_ROUTING_THRESHOLDS[provider].premium_model}

\* C6: in every result returned by execute_governance, model_used is the
\* cheap or the premium model configured for the request's own provider, and
\* no model configured for another provider.
C6_ModelOfOwnProvider ==
    \A r \in DOMAIN req :
        req[r].result.returned =>
            /\ req[r].result.provider = req[r].body.provider
            /\ req[r].result.model_used \in ModelsOf(req[r].body.provider)
            /\ \A p \in ALLOWED_PROVIDERS \ {req[r].body.provider} :
                  req[r].result.model_used \notin ModelsOf(p)

C6_Witness ==
    \E r \in DOMAIN req :
        /\ req[r].result.returned
        /\ req[r].body.provider = "anthropic"
        /\ req[r].result.model_used = "claude-3-sonnet"

\* C7: check_token_overflow fails with the token-overflow error exactly when
\* input_tokens + output_tokens exceeds the model's token limit; it returns
\* normally when the sum equals the limit.
C7_CheckTokenOverflow ==
    Returned("check_token_overflow") =>
        LET sum == call.args.input_tokens + call.args.output_tokens
            limit == MODEL_TOKEN_LIMITS[call.args.model]
        IN  /\ sum > limit => call.result = Exc("ValueError", "token_overflow")
            /\ sum <= limit => call.result = NoExc

C7_Witness ==
    /\ Returned("check_token_overflow")
    /\ call.args.input_tokens + call.args.output_tokens
          = MODEL_TOKEN_LIMITS[call.args.model]
    /\ call.args.output_tokens > 0
    /\ call.result = NoExc

\* C8: for every model with a pricing entry and all non-negative token
\* counts, estimate_cost equals input_tokens * input price per token +
\* output_tokens * output price per token, rounded to 8 decimals (a whole
\* count of 1e-8 USD, the prices being whole counts of 1e-8 USD per token).
C8_CostAtPerTokenPrices ==
    Returned("estimate_cost") =>
        call.result = call.args.input_tokens * PRICING_TABLE[call.args.model].input
                      + call.args.output_tokens * PRICING_TABLE[call.args.model].output

\* C9: compute_confidence returns a value in [0,1] for any answer and
\* context, an empty answer or context included, so the confidence_score of
\* every result returned by execute_governance is in [0,1].
C9_ConfidenceInUnitInterval ==
    /\ Returned("compute_confidence") =>
          (0 <= call.result /\ call.result <= 10000)
    /\ \A r \in DOMAIN req :
          req[r].result.returned =>
              /\ 0 <= req[r].result.confidence_score
              /\ req[r].result.confidence_score <= 10000

C9_Witness ==
    /\ Returned("compute_confidence")
    /\ call.args.context = <<>>
    /\ call.args.answer # <<>>
    /\ call.result = 0

RECURSIVE Decode(_)
\* The characters of a text, one by one.
Decode(t) ==
    IF t = <<>> THEN <<>>
    ELSE <<t[1].c>> \o (IF t[1].n = 1 THEN Decode(Tail(t))
                        ELSE Decode(<<Run(t[1].c, t[1].n - 1)>> \o Tail(t)))

\* The distinct case-folded words of a text, read character by character.
WordSet(t) ==
    LET s == Decode(t)
        f == [i \in 1..Len(s) |-> LowerChar(s[i])]
    IN  {SubSeq(f, i, j) : <<i, j>> \in
            {p \in (1..Len(f)) \X (1..Len(f)) :
                /\ p[1] <= p[2]
                /\ \A k \in p[1]..p[2] : IsWord(f[k])
                /\ (p[1] = 1 \/ ~IsWord(f[p[1] - 1]))
                /\ (p[2] = Len(f) \/ ~IsWord(f[p[2] + 1]))}}

\* The length of a text without its leading and trailing blanks.
TrimmedLength(t) ==
    LET s == Decode(t)
        solid == {i \in 1..Len(s) : ~IsSpace(s[i])}
    IN  IF solid = {} THEN 0
        ELSE 1 + (CHOOSE i \in solid : \A j \in solid : j <= i)
               - (CHOOSE i \in solid : \A j \in solid : i <= j)

\* C10: compute_confidence equals 0.5*L + 0.3*U + 0.2*S clamped to [0,1] and
\* rounded to 4 decimals, with A and C the distinct case-folded word sets of
\* answer and context: L = |A n C| / |A| (0 if A or C is empty), U =
\* |A n C| / |C| (0 if C is empty), S = min(1, trimmed answer length /
\* trimmed context length) (0 if the trimmed context is empty).
C10_ConfidenceFormula ==
    Returned("compute_confidence") =>
        LET A == WordSet(call.args.answer)
            C == WordSet(call.args.context)
            both == Cardinality(A \cap C)
            la == TrimmedLength(call.args.answer)
            lc == TrimmedLength(call.args.context)
            \* each term in units of 1e-4, over the denominator dA * dC * dS
            dA == IF A = {} THEN 1 ELSE Cardinality(A)
            dC == IF C = {} THEN 1 ELSE Cardinality(C)
            dS == IF lc = 0 THEN 1 ELSE lc
            L == IF A = {} \/ C = {} THEN 0 ELSE 5000 * both * dC * dS
            U == IF C = {} THEN 0 ELSE 3000 * both * dA * dS
            S == IF lc = 0 THEN 0 ELSE 2000 * Min(la, lc) * dA * dC
        IN  call.result =
                Max(0, Min(10000, RoundHalfEven(Frac(L + U + S, dA * dC * dS))))

C10_Witness ==
    /\ Returned("compute_confidence")
    /\ Cardinality(WordSet(call.args.context)) = 2
    /\ Cardinality(WordSet(call.args.answer)) = 1
    /\ WordSet(call.args.answer) \subseteq WordSet(call.args.context)
    /\ call.result \notin {0, 10000}

\* The class the failure of the provider call belongs to, by its cause.
ErrorClass(cause) ==
    IF cause = "timeout" THEN "timeout_error"
    ELSE IF cause = "rate_limit" THEN "rate_limit_error"
    ELSE "provider_error"

\* C11: every failure of the provider call made by call_llm becomes the
\* classified error of its cause: timeout_error when the call exceeded the
\* deadline, rate_limit_error when the provider throttled, provider_error
\* for any other failure, a response without content or usage included; no
\* failure leaves call_llm unclassified or under another class.
C11_ProviderFailuresClassified ==
    \A r \in DOMAIN req :
        LET o == req[r].outcome
        IN  /\ o.kind = "exception" =>
                  /\ req[r].failed_at = "CostProjected"
                  /\ req[r].exc = Exc("ValueError", ErrorClass(o.cause))
            /\ ( /\ o.kind = "response"
                 /\ \/ o.answer = None
                    \/ req[r].provider = "openai" /\ o.usage = NoUsage ) =>
                  /\ req[r].failed_at = "CostProjected"
                  /\ req[r].exc = Exc("ValueError", "provider_error")

ProviderErrorTypes == {"provider_error", "timeout_error", "rate_limit_error"}

\* C13: POST /govern answers validation and token-overflow errors with a
\* client-error response (4xx), and provider_error, timeout_error and
\* rate_limit_error with a server-side failure response (5xx) that names the
\* cause.
C13_ResponseClassByCause ==
    \A r \in DOMAIN req :
        /\ req[r].pc = "Rejected" => req[r].response.status \in 400..499
        /\ (req[r].pc = "Failed" /\ req[r].exc.msg = "token_overflow") =>
              req[r].response.status \in 400..499
        /\ (req[r].pc = "Failed" /\ req[r].exc.msg \in ProviderErrorTypes) =>
              /\ req[r].response.status \in 500..599
              /\ req[r].response.body.error_type = req[r].exc.msg

ErrorTypes ==
    {"validation_error", "provider_error", "timeout_error", "rate_limit_error",
     "token_overflow", "internal_error"}

\* C14: every error response of POST /govern has an error body whose
\* error_type is one of validation_error, provider_error, timeout_error,
\* rate_limit_error, token_overflow, internal_error.
C14_ErrorTypeEnumerated ==
    \A r \in DOMAIN req :
        req[r].response.status \notin {0, 200} =>
            /\ "body" \in DOMAIN req[r].response
            /\ DOMAIN req[r].response.body = {"error", "error_type"}
            /\ req[r].response.body.error_type \in ErrorTypes

\* The positions of execute_governance, in the order of its statements, and
\* the calls the statement at each position makes.
PipelineOrder ==
    <<"Start", "TempRouted", "TokenEstimated", "Routed", "OverflowChecked",
      "CostProjected", "Invoked", "CostFinalized", "ConfidenceScored", "Decided">>

CallsAt(pc) ==
    CASE pc = "Start" -> <<"route_model">>
      [] pc = "TempRouted" -> <<"estimate_input_tokens">>
      [] pc = "TokenEstimated" -> <<"route_model">>
      [] pc = "Routed" -> <<"estimate_output_tokens", "check_token_overflow">>
      [] pc = "OverflowChecked" -> <<"estimate_cost">>
      [] pc = "CostProjected" -> <<"call_llm">>
      [] pc = "Invoked" -> <<"estimate_cost">>
      [] pc = "CostFinalized" -> <<"compute_confidence">>
      [] pc = "ConfidenceScored" -> <<"should_refuse">>
      [] pc = "Decided" -> <<>>

RECURSIVE CallsThrough(_)
\* The calls made when the first k positions have been left.
CallsThrough(k) ==
    IF k = 0 THEN <<>> ELSE CallsThrough(k - 1) \o CallsAt(PipelineOrder[k])

PositionOf(pc) == CHOOSE k \in 1..Len(PipelineOrder) : PipelineOrder[k] = pc

\* C12: when a step of execute_governance fails the request is aborted at
\* that step: the calls made are those up to the failing step and no more
\* (no later step, no log_request), no result is returned, and the caller has
\* only the error (for POST /govern, an error response without an answer).
C12_AbortedAtFailingStep ==
    \A r \in DOMAIN req :
        (\E k \in 1..Len(PipelineOrder) : PipelineOrder[k] = req[r].failed_at) =>
            /\ req[r].pc \in {"Error", "Failed"}
            /\ req[r].exc # NoExc
            /\ ~req[r].result.returned
            /\ req[r].calls = CallsThrough(PositionOf(req[r].failed_at))
            /\ req[r].log = "none"
            /\ req[r].pc = "Error" => req[r].response = NoResponse
            /\ req[r].pc = "Failed" =>
                  /\ req[r].response.status \in 400..599
                  /\ "body" \in DOMAIN req[r].response =>
                        DOMAIN req[r].response.body = {"error", "error_type"}

C12_Witness ==
    \E r \in DOMAIN req :
        /\ req[r].failed_at = "CostProjected"
        /\ req[r].pc = "Failed"
        /\ req[r].outcome.kind = "exception"
        /\ req[r].response.status = 400

\* C15: a request to POST /govern whose query or context is empty or all
\* whitespace is rejected at validation: execute_governance is not started
\* for it, so no router, provider or logger call is made, no result is
\* returned and no audit row is written.
C15_BlankFieldsRejected ==
    \A r \in DOMAIN req :
        ( /\ req[r].entry = "govern"
          /\ AllBlank(req[r].body.query) \/ AllBlank(req[r].body.context) ) =>
            /\ req[r].pc \in {"Received", "Rejected"}
            /\ req[r].calls = <<>>
            /\ ~req[r].result.returned
            /\ sentinel_logs = <<>>
            /\ req[r].pc = "Rejected" => req[r].response.status = 422

C15_Witness ==
    \E r \in DOMAIN req :
        /\ req[r].entry = "govern"
        /\ req[r].body.query = Word
        /\ req[r].body.context = Blank
        /\ req[r].body.provider \in ALLOWED_PROVIDERS
        /\ req[r].pc = "Rejected"

Unsupported(provider) == provider \notin DOMAIN MODEL_ROUTING_THRESHOLDS

\* C16: for a provider that is not in the routing configuration route_model
\* and estimate_input_tokens raise the unsupported-provider error and return
\* no model and no token count, so execute_governance called for such a
\* provider ends in Error at its first step, before any provider call.
C16_UnsupportedProviderFails ==
    /\ (Returned("route_model") /\ Unsupported(call.args.provider)) =>
          /\ call.result.exc.type = "UnsupportedProviderError"
          /\ call.result.value \notin Models
    /\ (Returned("estimate_input_tokens") /\ Unsupported(call.args.provider)) =>
          /\ call.result.exc =
                Exc("ValueError", "Unsupported provider for token estimation.")
          /\ call.result.value < 0
    /\ \A r \in DOMAIN req :
          Unsupported(req[r].body.provider) =>
              /\ Called(r, "call_llm") = {}
              /\ ~req[r].result.returned
              /\ req[r].pc \in {"Received", "Rejected", "Start", "Error"}
              /\ req[r].pc = "Error" =>
                    /\ req[r].failed_at = "Start"
                    /\ req[r].exc.type = "UnsupportedProviderError"
                    /\ req[r].model_used = "" /\ req[r].input_tokens < 0

C16_Witness ==
    \E r \in DOMAIN req :
        /\ req[r].entry = "execute_governance"
        /\ req[r].provider = "cohere"
        /\ req[r].pc = "Error"
        /\ req[r].calls = <<"route_model">>

\* The columns of sentinel_logs written by the INSERT, timestamp aside.
AuditColumns ==
    {"query_hash", "provider", "model_used", "estimated_cost", "actual_cost",
     "confidence_score", "refusal_flag", "latency_ms", "input_tokens",
     "output_tokens"}

\* C17: every row persisted by log_request has in query_hash the digest of
\* the query of the request it was written for, and holds the query text
\* itself nowhere: query_hash is not the text, and the row has no other
\* column that is fed from the query.
C17_RowHoldsHashNotQuery ==
    \A i \in DOMAIN sentinel_logs :
        \E r \in DOMAIN req :
            /\ Called(r, "log_request") # {}
            /\ sentinel_logs[i].query_hash = _hash_query(req[r].query)
            /\ sentinel_logs[i].query_hash # req[r].query
            /\ sentinel_logs[i].query_hash # req[r].body.query
            /\ DOMAIN sentinel_logs[i] = AuditColumns
            /\ sentinel_logs[i].provider = req[r].provider
            /\ sentinel_logs[i].model_used = req[r].model_used

C17_Witness ==
    /\ Len(sentinel_logs) = 1
    /\ sentinel_logs[1].query_hash = _hash_query(<<Run("a", 1)>>)
    /\ \E r \in DOMAIN req : req[r].pc = "Responded"

\* The calls of one request in the order Start, TokenEstimated, Routed,
\* OverflowChecked, CostProjected, Invoked, CostFinalized, ConfidenceScored,
\* Decided, Done, each step run once.
StepsInOrder ==
    <<"estimate_input_tokens", "route_model", "estimate_output_tokens",
      "check_token_overflow", "estimate_cost", "call_llm", "estimate_cost",
      "compute_confidence", "should_refuse", "log_request">>

IsPrefix(s, t) == Len(s) <= Len(t) /\ SubSeq(t, 1, Len(s)) = s

\* C18: each request passes through the steps in exactly the order Start,
\* TokenEstimated, Routed, OverflowChecked, CostProjected, Invoked,
\* CostFinalized, ConfidenceScored, Decided, Done: no step is skipped,
\* repeated or run before its predecessor (the router is not consulted before
\* the token estimate exists), and the only other transition is into Error.
C18_StepsInOrder ==
    \A r \in DOMAIN req :
        /\ IsPrefix(req[r].calls, StepsInOrder)
        /\ \A i \in Called(r, "route_model") :
              /\ req[r].input_tokens >= 0
              /\ \E j \in Called(r, "estimate_input_tokens") : j < i
        /\ Cardinality(Called(r, "route_model")) <= 1

Reported(usage) ==
    IF usage = NoUsage THEN [input_tokens |-> 0, output_tokens |-> 0] ELSE usage

\* C20: in every successful request estimate_cost is applied exactly twice,
\* both times for the routed model: before the provider call to the
\* estimated input tokens and the output cap, giving estimated_cost, and
\* after it to the token counts the provider reported, giving actual_cost.
C20_CostEstimatedTwice ==
    \A r \in DOMAIN req :
        req[r].result.returned =>
            LET costs == Called(r, "estimate_cost")
                used == Reported(req[r].outcome.usage)
            IN  /\ Cardinality(costs) = 2
                /\ \A k \in Called(r, "call_llm") :
                      /\ \E i \in costs : i < k
                      /\ \E j \in costs : k < j
                /\ req[r].result.estimated_cost \in
                      estimate_cost(req[r].input_tokens, MAX_OUTPUT_TOKENS,
                                    req[r].result.model_used)
                /\ req[r].result.input_tokens = used.input_tokens
                /\ req[r].result.output_tokens = used.output_tokens
                /\ req[r].result.actual_cost \in
                      estimate_cost(used.input_tokens, used.output_tokens,
                                    req[r].result.model_used)

C20_Witness ==
    \E r \in DOMAIN req :
        /\ req[r].result.returned
        /\ req[r].outcome.usage # NoUsage
        /\ req[r].result.model_used = "claude-3-sonnet"
        /\ req[r].result.estimated_cost # req[r].result.actual_cost

\* C21: the refusal step changes only the answer: in a result with refusal
\* true, confidence_score, model_used, estimated_cost, actual_cost,
\* input_tokens, output_tokens, latency_ms and provider are the values the
\* steps before the decision computed from the request and the provider's
\* response, as for an answer that is surfaced.
C21_RefusalKeepsTelemetry ==
    \A r \in DOMAIN req :
        (req[r].result.returned /\ req[r].result.refusal) =>
            LET result == req[r].result
                used == Reported(req[r].outcome.usage)
            IN  /\ result.confidence_score =
                      compute_confidence(req[r].llm_answer, req[r].context)
                /\ result.model_used =
                      route_model(req[r].provider, req[r].input_tokens).value
                /\ result.estimated_cost \in
                      estimate_cost(req[r].input_tokens, MAX_OUTPUT_TOKENS,
                                    result.model_used)
                /\ result.actual_cost \in
                      estimate_cost(used.input_tokens, used.output_tokens,
                                    result.model_used)
                /\ result.input_tokens = used.input_tokens
                /\ result.output_tokens = used.output_tokens
                /\ result.latency_ms = req[r].outcome.latency_ms
                /\ result.provider = req[r].body.provider
                /\ result.answer = REFUSAL_MESSAGE

C21_Witness ==
    \E r \in DOMAIN req :
        /\ req[r].result.returned
        /\ req[r].result.refusal
        /\ req[r].result.confidence_score > 0
        /\ req[r].result.latency_ms > 0
        /\ req[r].result.output_tokens > 0
        /\ req[r].result.actual_cost > 0

Configured(model) ==
    /\ model \in DOMAIN PRICING_TABLE
    /\ model \in DOMAIN MODEL_TOKEN_LIMITS
    /\ DOMAIN PRICING_TABLE[model] = {"input", "output"}

\* C22: every model the router can return for a supported provider has a
\* pricing entry and a token-limit entry, so in no execution of the pipeline
\* does estimate_cost or check_token_overflow fail for want of an entry for
\* the routed model.
C22_RoutedModelsConfigured ==
    /\ \A p \in ALLOWED_PROVIDERS :
          /\ p \in DOMAIN MODEL_ROUTING_THRESHOLDS
          /\ \A m \in ModelsOf(p) : Configured(m)
    /\ (Returned("route_model") /\ call.result.exc = NoExc) =>
          Configured(call.result.value)
    /\ \A r \in DOMAIN req :
          /\ req[r].exc.type # "KeyError"
          /\ req[r].model_used # "" => Configured(req[r].model_used)
          /\ req[r].temp_model # "" => Configured(req[r].temp_model)

C22_Witness ==
    \E r \in DOMAIN req :
        /\ req[r].model_used = "claude-3-sonnet"
        /\ Cardinality(Called(r, "estimate_cost")) = 2
        /\ Called(r, "check_token_overflow") # {}
        /\ req[r].pc = "Responded"

\* The result execute_governance returns for the body when the request runs
\* alone and the provider answers with outcome o: result is one of them.
ResultAlone(entry, body, o, result) ==
    /\ body.provider \in ALLOWED_PROVIDERS
    /\ o.kind = "response"
    /\ LET query == IF entry = "govern" THEN strip(body.query) ELSE body.query
           context == IF entry = "govern" THEN strip(body.context)
                      ELSE body.context
           used == Reported(o.usage)
           confidence_score == compute_confidence(o.answer, context)
           refusal_flag == should_refuse(confidence_score, context)
       IN  \E t \in estimate_input_tokens(query, context, body.provider,
                                          route_model(body.provider, 0).value) :
             LET model_used == route_model(body.provider, t.value).value
             IN  \E estimated_cost \in
                        estimate_cost(t.value, MAX_OUTPUT_TOKENS, model_used),
                    actual_cost \in
                        estimate_cost(used.input_tokens, used.output_tokens,
                                      model_used) :
                   result = [returned |-> TRUE,
                             answer |-> GovernedAnswer(refusal_flag, o.answer),
                             refusal |-> refusal_flag,
                             confidence_score |-> confidence_score,
                             model_used |-> model_used,
                             estimated_cost |-> estimated_cost,
                             actual_cost |-> actual_cost,
                             input_tokens |-> used.input_tokens,
                             output_tokens |-> used.output_tokens,
                             latency_ms |-> o.latency_ms,
                             provider |-> body.provider]

\* C23: with several requests in flight and their steps interleaved in any
\* order, the routing configuration, the pricing table and the token limits
\* stay as they were at import, and the result of each request is the one
\* the request gets alone for the same provider response.
C23_RequestsIsolated ==
    /\ config = ConfigAtImport
    /\ \A r \in DOMAIN req :
          req[r].result.returned =>
              ResultAlone(req[r].entry, req[r].body, req[r].outcome,
                          req[r].result)

C23_Witness ==
    /\ Len(sentinel_logs) = 2
    /\ req[1].result.returned /\ req[2].result.returned
    /\ req[1].result.provider = "openai"
    /\ req[2].result.model_used = "claude-3-sonnet"
    /\ req[1].result.confidence_score # req[2].result.confidence_score
    /\ sentinel_logs[1].provider = "anthropic"
    /\ req[1].pc = "Responded"

RECURSIVE RowsOf(_)
\* The rows committed for the requests of a set, all together.
RowsOf(rs) ==
    IF rs = {} THEN 0
    ELSE LET r == CHOOSE x \in rs : TRUE
         IN  req[r].rows + RowsOf(rs \ {r})

\* The request ended in an error of validation or of the pipeline.
EndedInPipelineError(r) ==
    \/ req[r].pc = "Rejected"
    \/ \E k \in 1..Len(PipelineOrder) : PipelineOrder[k] = req[r].failed_at

\* C24: after any interleaving of requests to POST /govern, a request that
\* ended in a validation, unsupported-provider, token-overflow or provider
\* error has written no audit row (log_request was not called for it), and
\* no request has written more than one row.
C24_RowsPerRequest ==
    /\ \A r \in DOMAIN req :
          /\ req[r].rows <= 1
          /\ req[r].rows <= Cardinality(Called(r, "log_request"))
          /\ Cardinality(Called(r, "log_request")) <= 1
          /\ EndedInPipelineError(r) =>
                /\ req[r].rows = 0
                /\ Called(r, "log_request") = {}
    /\ Len(sentinel_logs) = RowsOf(DOMAIN req)

C24_Witness ==
    /\ req[1].pc = "Failed"
    /\ req[1].exc.msg = "token_overflow"
    /\ req[1].rows = 0
    /\ req[2].pc = "Responded"
    /\ req[2].rows = 1
    /\ Len(sentinel_logs) = 1

\* C25: an audit row is committed for a request only if POST /govern then
\* answers it with the success response: a request answered with the
\* logging-failure error, or with any other error raised after log_request
\* was called, has no committed row.
C25_RowOnlyIfSuccess ==
    \A r \in DOMAIN req :
        /\ req[r].rows > 0 => req[r].pc \in {"Logged", "Responded"}
        /\ (req[r].pc = "Failed" /\ Called(r, "log_request") # {}) =>
              /\ req[r].rows = 0
              /\ sentinel_logs = <<>>

====
